---- MODULE Spec2Model ----
(***************************************************************************)
(* Model of the celkit text encoders (celkit_string/src/encode.rs) and of  *)
(* the value and error types they work on (celkit_core/src/core.rs).       *)
(*                                                                         *)
(* A Rust String is a sequence of Unicode code points (integers); its      *)
(* len() is the UTF-8 byte length, as in Rust.  The literals of the source *)
(* are written as tuples of code points with the text in a comment.        *)
(***************************************************************************)
EXTENDS Integers, Sequences, FiniteSets

VARIABLES
    op,            \* which API the current run exercises
    esc_input,     \* escape_text: the `input` argument
    esc_output,    \* escape_text: the returned String
    error,         \* core::Error under construction / displayed
    shown,         \* the text Display writes for `error`
    serialized,    \* what value.serialize() returned (Result<Value>)
    encoder,       \* the mini or pretty Encoder holding the Value
    result,        \* what encode() / to_string() returned (Result<String>)
    items,         \* packing loop: the rendered children
    idx,           \* packing loop: number of children already consumed
    current_line,  \* packing loop: the line being filled
    output,        \* packing loop: the text flushed so far
    pack_depth,    \* packing loop: the depth of the composite being encoded
    pairs,         \* map construction: the key/value pairs, each inserted or not yet
    map            \* map construction: the BTreeMap built so far

escVars == <<esc_input, esc_output>>
errVars == <<error, shown>>
encVars == <<serialized, encoder, result>>
packVars == <<items, idx, current_line, output, pack_depth>>
mapVars == <<pairs, map>>

vars == <<op, escVars, errVars, encVars, packVars, mapVars>>

----------------------------------------------------------------------------
(* Bounds of the model *)

\* longest input string given to escape_text
MaxEscLen == 2
\* most children a generated composite Value holds
MaxKids == 2
\* most children handed to the packing loop
MaxPack == 3
\* largest max_line_length tried besides the default
MaxWidth == 12
\* most key/value pairs of a map built insert by insert
MaxMapKeys == 3
\* largest max_line_length tried in the step-by-step run of the packing loop
MaxPackWidth == 9
\* largest indent_size tried
MaxIndent == 2
\* largest line / column number of an Error
MaxPos == 11
\* most children of a composite that is itself a child
MaxInner == 1

----------------------------------------------------------------------------
(* Strings *)

\* String::len(): the UTF-8 byte length
Utf8Width(c) == IF c < 128 THEN 1 ELSE IF c < 2048 THEN 2 ELSE IF c < 65536 THEN 3 ELSE 4

RECURSIVE StrLen(_)
StrLen(s) == IF s = <<>> THEN 0 ELSE Utf8Width(Head(s)) + StrLen(Tail(s))

\* the number of characters (chars().count())
CharCount(s) == Len(s)

RECURSIVE Concat(_)
\* the concatenation of a sequence of strings
Concat(ss) == IF ss = <<>> THEN <<>> ELSE Head(ss) \o Concat(Tail(ss))

RECURSIVE Join(_, _)
\* [String]::join(sep)
Join(ss, sep) ==
    IF ss = <<>> THEN <<>>
    ELSE IF Len(ss) = 1 THEN ss[1]
    ELSE ss[1] \o sep \o Join(Tail(ss), sep)

RECURSIVE Repeat(_, _)
\* str::repeat(n)
Repeat(s, n) == IF n = 0 THEN <<>> ELSE s \o Repeat(s, n - 1)

\* char::is_whitespace(): the White_Space property
IsWhitespace(c) ==
    \/ c \in 9..13
    \/ c \in {32, 133, 160, 5760, 8232, 8233, 8239, 8287, 12288}
    \/ c \in 8192..8202

RECURSIVE TrimEnd(_)
\* str::trim_end()
TrimEnd(s) ==
    IF s = <<>> THEN s
    ELSE IF IsWhitespace(s[Len(s)]) THEN TrimEnd(SubSeq(s, 1, Len(s) - 1))
    ELSE s

\* char::is_control(): general category Cc
IsControl(c) == c \in 0..31 \/ c \in 127..159

\* one lower-case hexadecimal digit
HexDigit(d) == IF d < 10 THEN 48 + d ELSE 87 + d

RECURSIVE LowerHex(_)
\* {:x} of an unsigned integer
LowerHex(n) ==
    IF n < 16 THEN <<HexDigit(n)>>
    ELSE LowerHex(n \div 16) \o <<HexDigit(n % 16)>>

\* {:04x}: zero-padded to a minimum width of four
LowerHex04(n) ==
    LET h == LowerHex(n)
    IN  IF Len(h) >= 4 THEN h ELSE Repeat(<<48>>, 4 - Len(h)) \o h

RECURSIVE Decimal(_)
\* to_string() of a non-negative integer
Decimal(n) ==
    IF n < 10 THEN <<48 + n>>
    ELSE Decimal(n \div 10) \o <<48 + (n % 10)>>

\* to_string() of a signed integer
SignedDecimal(n) == IF n < 0 THEN <<45>> \o Decimal(0 - n) ELSE Decimal(n)

\* lexicographic order of Strings (Ord for String: by bytes, i.e. by code point)
RECURSIVE StrLess(_, _)
StrLess(a, b) ==
    IF b = <<>> THEN FALSE
    ELSE IF a = <<>> THEN TRUE
    ELSE IF Head(a) # Head(b) THEN Head(a) < Head(b)
    ELSE StrLess(Tail(a), Tail(b))

----------------------------------------------------------------------------
(* escape_text, encode.rs:3-23 *)

\* one arm of the match on c
EscapeCharFormatU(c) == <<92, 117>> \o LowerHex04(c)          \* format!("\\u{:04x}", c as u32)

\* a mapping that leaves the backslash as it is
EscapeChar_RawBackslash(c) ==
    CASE c = 8  -> <<92, 98>>
      [] c = 12 -> <<92, 102>>
      [] c = 10 -> <<92, 110>>
      [] c = 13 -> <<92, 114>>
      [] c = 9  -> <<92, 116>>
      [] c = 34 -> <<92, 34>>
      [] OTHER  -> IF IsControl(c) THEN EscapeCharFormatU(c) ELSE <<c>>

EscapeChar(c) ==
    CASE c = 8  -> <<92, 98>>                                 \* "\\b"
      [] c = 12 -> <<92, 102>>                                \* "\\f"
      [] c = 10 -> <<92, 110>>                                \* "\\n"
      [] c = 13 -> <<92, 114>>                                \* "\\r"
      [] c = 9  -> <<92, 116>>                                \* "\\t"
      [] c = 92 -> <<92, 92>>                                 \* "\\\\"
      [] c = 34 -> <<92, 34>>                                 \* "\\\""
      [] OTHER  -> IF IsControl(c) THEN EscapeCharFormatU(c) ELSE <<c>>

RECURSIVE escape_text(_)
escape_text(input) ==
    IF input = <<>> THEN <<>>
    ELSE EscapeChar(Head(input)) \o escape_text(Tail(input))

----------------------------------------------------------------------------
(* Value and Number, core.rs:4-49 *)

\* Number::to_string(): every variant prints its native decimal text
NumberToString(n) == SignedDecimal(n)

\* BTreeMap<String, Value>: the keys in ascending order, vals[i] belonging to keys[i]
EmptyMap == [keys |-> <<>>, vals |-> <<>>]

RECURSIVE LowerBound(_, _, _)
\* the number of keys of m, from position i on, that are smaller than k, plus i - 1
LowerBound(keys, k, i) ==
    IF i > Len(keys) THEN Len(keys)
    ELSE IF StrLess(keys[i], k) THEN LowerBound(keys, k, i + 1)
    ELSE i - 1

\* a map that keeps insertion order instead of key order
BTreeInsertUnordered(m, k, v) ==
    IF \E i \in 1..Len(m.keys) : m.keys[i] = k
    THEN LET i == CHOOSE j \in 1..Len(m.keys) : m.keys[j] = k
         IN  [keys |-> m.keys, vals |-> [m.vals EXCEPT ![i] = v]]
    ELSE [keys |-> Append(m.keys, k), vals |-> Append(m.vals, v)]

\* BTreeMap::insert(k, v)
BTreeInsert(m, k, v) ==
    IF \E i \in 1..Len(m.keys) : m.keys[i] = k
    THEN LET i == CHOOSE j \in 1..Len(m.keys) : m.keys[j] = k
         IN  [keys |-> m.keys, vals |-> [m.vals EXCEPT ![i] = v]]
    ELSE LET p == LowerBound(m.keys, k, 1)
         IN  [keys |-> SubSeq(m.keys, 1, p) \o <<k>> \o SubSeq(m.keys, p + 1, Len(m.keys)),
              vals |-> SubSeq(m.vals, 1, p) \o <<v>> \o SubSeq(m.vals, p + 1, Len(m.vals))]

\* enum Value: every variant as a record of the same shape
VNull == [tag |-> "Null", b |-> FALSE, n |-> 0, text |-> <<>>, name |-> <<>>,
          keys |-> <<>>, items |-> <<>>]
VBoolean(x) == [VNull EXCEPT !.tag = "Boolean", !.b = x]
VNumber(x) == [VNull EXCEPT !.tag = "Number", !.n = x]
VText(t) == [VNull EXCEPT !.tag = "Text", !.text = t]
VArray(xs) == [VNull EXCEPT !.tag = "Array", !.items = xs]
VTuple(xs) == [VNull EXCEPT !.tag = "Tuple", !.items = xs]
VObject(m) == [VNull EXCEPT !.tag = "Object", !.keys = m.keys, !.items = m.vals]
VStruct(nm, m) == [VNull EXCEPT !.tag = "Struct", !.name = nm, !.keys = m.keys, !.items = m.vals]

----------------------------------------------------------------------------
(* mod mini, encode.rs:26-119 *)

mini_encode_null == <<110, 117, 108, 108>>                        \* "null"

mini_encode_boolean(value) ==
    IF value THEN <<116, 114, 117, 101>>                          \* "true"
    ELSE <<102, 97, 108, 115, 101>>                               \* "false"

mini_encode_number(value) == NumberToString(value)

mini_encode_text(value) == <<34>> \o escape_text(value) \o <<34>> \* format!("\"{}\"", ..)

\* items already encoded
mini_encode_array(enc) == <<91>> \o Join(enc, <<44>>) \o <<93>>    \* format!("[{}]", items.join(","))

mini_encode_tuple(enc) == <<40>> \o Join(enc, <<44>>) \o <<41>>    \* format!("({})", members.join(","))

mini_object_entry(key, encoded_value) ==                           \* format!("\"{}\":{}", ..)
    <<34>> \o escape_text(key) \o <<34, 58>> \o encoded_value

mini_encode_object(keys, enc) ==
    <<123>> \o Join([i \in 1..Len(keys) |-> mini_object_entry(keys[i], enc[i])], <<44>>) \o <<125>>

\* a field name written like an Object key
mini_struct_field_Quoted(name, encoded_value) ==
    <<34>> \o escape_text(name) \o <<34, 61>> \o encoded_value

mini_struct_field(name, encoded_value) == name \o <<61>> \o encoded_value   \* format!("{}={}", ..)

mini_encode_struct(keys, enc) ==
    <<64, 40>> \o Join([i \in 1..Len(keys) |-> mini_struct_field(keys[i], enc[i])], <<44>>) \o <<41>>

RECURSIVE mini_encode_value(_)
mini_encode_value(value) ==
    LET enc == [i \in 1..Len(value.items) |-> mini_encode_value(value.items[i])]
    IN  CASE value.tag = "Null"    -> mini_encode_null
          [] value.tag = "Boolean" -> mini_encode_boolean(value.b)
          [] value.tag = "Number"  -> mini_encode_number(value.n)
          [] value.tag = "Text"    -> mini_encode_text(value.text)
          [] value.tag = "Array"   -> mini_encode_array(enc)
          [] value.tag = "Tuple"   -> mini_encode_tuple(enc)
          [] value.tag = "Object"  -> mini_encode_object(value.keys, enc)
          [] value.tag = "Struct"  -> mini_encode_struct(value.keys, enc)

----------------------------------------------------------------------------
(* mod pretty, encode.rs:122-524.  self = [indent_size, max_line_length,   *)
(* trailing_comma]                                                         *)

\* Encoder::new: the default configuration
DefaultIndentSize == 2
DefaultMaxLineLength == 100
DefaultTrailingComma == TRUE

pretty_new == [indent_size |-> DefaultIndentSize,
               max_line_length |-> DefaultMaxLineLength,
               trailing_comma |-> DefaultTrailingComma]

indent(self, level) == Repeat(<<32>>, level * self.indent_size)

RECURSIVE SumLen(_)
SumLen(ss) == IF ss = <<>> THEN 0 ELSE StrLen(Head(ss)) + SumLen(Tail(ss))

\* single_line_length after the first loop and the closing delimiter
SingleLineLength(enc) == 1 + SumLen(enc) + 2 * (Len(enc) - 1) + 1

\* no allowance for the parent's comma
CommaAllowance_None(depth) == 0

CommaAllowance(depth) == IF depth > 0 THEN 1 ELSE 0

\* can_fit_single_line after the check against the line limit
CanFitSingleLine(self, enc, depth) ==
    ~ (StrLen(indent(self, depth)) + SingleLineLength(enc) + CommaAllowance(depth)
         > self.max_line_length)

\* the child with its separator: i is the 0-based index, n = value.len()
FormattedItem(self, encoded_item, i, n) ==
    IF i < n - 1 \/ self.trailing_comma THEN encoded_item \o <<44, 32>> ELSE encoded_item

\* a fit test that forgets the separator appended to the item
FitsCurrentLine_IgnoresSeparator(self, line, formatted_item, empty_line_len) ==
    \/ StrLen(line) + StrLen(formatted_item) - 2 <= self.max_line_length
    \/ StrLen(line) <= empty_line_len

\* "this item would fit in the current line", or the line is still empty
FitsCurrentLine(self, line, formatted_item, empty_line_len) ==
    \/ StrLen(line) + StrLen(formatted_item) <= self.max_line_length
    \/ StrLen(line) <= empty_line_len

\* a flush that starts the new line without the item that did not fit
PackStep_DropsOnFlush(self, st, encoded_item, i, n, next_indent) ==
    LET formatted_item == FormattedItem(self, encoded_item, i, n)
    IN  IF FitsCurrentLine(self, st.current_line, formatted_item, StrLen(next_indent))
        THEN [output |-> st.output, current_line |-> st.current_line \o formatted_item]
        ELSE [output |-> st.output \o TrimEnd(st.current_line) \o <<10>>,
              current_line |-> next_indent]

\* one iteration of the packing loop; st = [output, current_line]
PackStep(self, st, encoded_item, i, n, next_indent) ==
    LET formatted_item == FormattedItem(self, encoded_item, i, n)
    IN  IF FitsCurrentLine(self, st.current_line, formatted_item, StrLen(next_indent))
        THEN [output |-> st.output, current_line |-> st.current_line \o formatted_item]
        ELSE [output |-> st.output \o TrimEnd(st.current_line) \o <<10>>,
              current_line |-> next_indent \o formatted_item]

\* a struct loop that packs its fields like the items of an Array
PackStep_ForStruct(self, st, encoded_field, i, n, next_indent) ==
    PackStep(self, st, encoded_field, i, n, next_indent)

\* one iteration of the struct loop: each field has its own line
StructStep(self, st, encoded_field, i, n, next_indent) ==
    [output |-> st.output \o TrimEnd(st.current_line) \o <<10>>,
     current_line |-> next_indent \o FormattedItem(self, encoded_field, i, n)]

\* "add the last line if it has content", then the closing indent and delimiter
PackFinish(st, current_indent, empty_line_len, close) ==
    (IF StrLen(st.current_line) > empty_line_len
     THEN st.output \o TrimEnd(st.current_line) \o <<10>>
     ELSE st.output) \o current_indent \o close

RECURSIVE PackLoop(_, _, _, _, _)
\* the packing loop from the 0-based index i on
PackLoop(self, st, enc, i, next_indent) ==
    IF i >= Len(enc) THEN st
    ELSE PackLoop(self, PackStep(self, st, enc[i + 1], i, Len(enc), next_indent),
                  enc, i + 1, next_indent)

RECURSIVE StructLoop(_, _, _, _, _)
StructLoop(self, st, enc, i, next_indent) ==
    IF i >= Len(enc) THEN st
    ELSE StructLoop(self, StructStep(self, st, enc[i + 1], i, Len(enc), next_indent),
                    enc, i + 1, next_indent)

\* the single-line form
SingleLine(open, enc, close) == open \o Join(enc, <<44, 32>>) \o close

\* the multi-line form
MultiLine(self, open, enc, close, depth) ==
    LET next_indent == indent(self, depth + 1)
        st0 == [output |-> open \o <<10>>, current_line |-> next_indent]
    IN  PackFinish(PackLoop(self, st0, enc, 0, next_indent),
                   indent(self, depth), StrLen(next_indent), close)

\* the body shared by encode_array, encode_tuple and encode_object
EncodeSequence(self, open, enc, close, depth) ==
    IF enc = <<>> THEN open \o close
    ELSE IF CanFitSingleLine(self, enc, depth) THEN SingleLine(open, enc, close)
    ELSE MultiLine(self, open, enc, close, depth)

pretty_encode_text(value) == <<34>> \o escape_text(value) \o <<34>>

pretty_encode_array(self, enc, depth) == EncodeSequence(self, <<91>>, enc, <<93>>, depth)

pretty_encode_tuple(self, enc, depth) == EncodeSequence(self, <<40>>, enc, <<41>>, depth)

pretty_object_entry(key, encoded_value) ==                        \* format!("\"{}\": {}", ..)
    <<34>> \o escape_text(key) \o <<34, 58, 32>> \o encoded_value

pretty_encode_object(self, keys, enc, depth) ==
    EncodeSequence(self, <<123>>,
                   [i \in 1..Len(keys) |-> pretty_object_entry(keys[i], enc[i])],
                   <<125>>, depth)

pretty_struct_field(name, encoded_value) ==                       \* format!("{} = {}", ..)
    name \o <<32, 61, 32>> \o encoded_value

pretty_encode_struct(self, keys, enc, depth) ==
    IF keys = <<>> THEN <<64, 40, 41>>                            \* "@()"
    ELSE LET next_indent == indent(self, depth + 1)
             fields == [i \in 1..Len(keys) |-> pretty_struct_field(keys[i], enc[i])]
             st0 == [output |-> <<64, 40>>, current_line |-> next_indent]
         IN  PackFinish(StructLoop(self, st0, fields, 0, next_indent),
                        indent(self, depth), StrLen(next_indent), <<41>>)

RECURSIVE pretty_encode_value(_, _, _)
pretty_encode_value(self, value, depth) ==
    LET enc == [i \in 1..Len(value.items) |->
                   pretty_encode_value(self, value.items[i], depth + 1)]
    IN  CASE value.tag = "Null"    -> mini_encode_null
          [] value.tag = "Boolean" -> mini_encode_boolean(value.b)
          [] value.tag = "Number"  -> mini_encode_number(value.n)
          [] value.tag = "Text"    -> pretty_encode_text(value.text)
          [] value.tag = "Array"   -> pretty_encode_array(self, enc, depth)
          [] value.tag = "Tuple"   -> pretty_encode_tuple(self, enc, depth)
          [] value.tag = "Object"  -> pretty_encode_object(self, value.keys, enc, depth)
          [] value.tag = "Struct"  -> pretty_encode_struct(self, value.keys, enc, depth)

----------------------------------------------------------------------------
(* Error, core.rs:51-116.  Option<T> is [some, v].                         *)

None == [some |-> FALSE, v |-> 0]
NoneStr == [some |-> FALSE, v |-> <<>>]
Some(x) == [some |-> TRUE, v |-> x]

Error_new(message) ==
    [message |-> message, context |-> NoneStr, line |-> None, column |-> None]

Error_with_position(message, line, column) ==
    [message |-> message, context |-> NoneStr, line |-> Some(line), column |-> Some(column)]

Error_with_context(message, context, line, column) ==
    [message |-> message, context |-> Some(context),
     line |-> Some(line), column |-> Some(column)]

\* a Display that writes the context in both arms
Error_fmt_ContextAlways(self) ==
    (IF self.line.some /\ self.column.some
     THEN <<80, 97, 114, 115, 101, 32, 101, 114, 114, 111, 114, 32, 97, 116, 32,
            108, 105, 110, 101, 32>> \o Decimal(self.line.v)
          \o <<44, 32, 99, 111, 108, 117, 109, 110, 32>> \o Decimal(self.column.v)
          \o <<58, 32>> \o self.message
     ELSE <<69, 114, 114, 111, 114, 58, 32>> \o self.message)
    \o (IF self.context.some
        THEN <<10, 67, 111, 110, 116, 101, 120, 116, 58, 32>> \o self.context.v
        ELSE <<>>)

\* impl fmt::Display for Error
Error_fmt(self) ==
    IF self.line.some /\ self.column.some
    THEN \* "Parse error at line {}, column {}: {}"
         <<80, 97, 114, 115, 101, 32, 101, 114, 114, 111, 114, 32, 97, 116, 32,
           108, 105, 110, 101, 32>> \o Decimal(self.line.v)
         \o <<44, 32, 99, 111, 108, 117, 109, 110, 32>> \o Decimal(self.column.v)
         \o <<58, 32>> \o self.message
         \o (IF self.context.some
             THEN <<10, 67, 111, 110, 116, 101, 120, 116, 58, 32>> \o self.context.v   \* "\nContext: {}"
             ELSE <<>>)
    ELSE <<69, 114, 114, 111, 114, 58, 32>> \o self.message        \* "Error: {}"

----------------------------------------------------------------------------
(* Result<T>, core.rs:120 *)

NoError == Error_new(<<>>)
Ok(x) == [ok |-> TRUE, value |-> x, err |-> NoError]
Err(e) == [ok |-> FALSE, value |-> <<>>, err |-> e]
NoResult == [ok |-> FALSE, value |-> <<>>, err |-> NoError]

----------------------------------------------------------------------------
(* The encoders as built by to_mini / to_pretty, encode.rs:31-38, 127-142 *)

NoEncoder == [kind |-> "none", input |-> VNull, indent_size |-> 0,
              max_line_length |-> 0, trailing_comma |-> FALSE]

\* mini::Encoder::new(input)
mini_Encoder_new(input) == [NoEncoder EXCEPT !.kind = "mini", !.input = input]

\* pretty::Encoder::new(input)
pretty_Encoder_new(input) ==
    [kind |-> "pretty", input |-> input, indent_size |-> pretty_new.indent_size,
     max_line_length |-> pretty_new.max_line_length,
     trailing_comma |-> pretty_new.trailing_comma]

\* mini::Encoder::encode(self)
mini_encode(self) == Ok(mini_encode_value(self.input))

\* pretty::Encoder::encode(self): depth starts at 0
pretty_encode(self) == Ok(pretty_encode_value(self, self.input, 0))

----------------------------------------------------------------------------
(* Values a run leaves alone *)

EscIdle == esc_input = <<>> /\ esc_output = <<>>
ErrIdle == error = NoError /\ shown = <<>>
EncIdle == serialized = NoResult /\ encoder = NoEncoder /\ result = NoResult
PackIdle == items = <<>> /\ idx = 0 /\ current_line = <<>> /\ output = <<>> /\ pack_depth = 0
MapIdle == pairs = {} /\ map = EmptyMap

----------------------------------------------------------------------------
(* Specification of escape_text: every input string of at most MaxEscLen   *)
(* characters is escaped.                                                  *)

\* the named escapes, the two quoted characters, other controls of both ranges,
\* printable ASCII and non-ASCII characters, a non-control line separator
EscChars == {0, 1, 8, 9, 10, 12, 13, 31, 32, 34, 92, 97, 117, 127, 159, 233, 8232}

StringsUpTo(chars, n) == UNION {[1..k -> chars] : k \in 0..n}

InitEscape ==
    /\ op = "escape"
    /\ esc_input \in StringsUpTo(EscChars, MaxEscLen)
    /\ esc_output = <<>>
    /\ ErrIdle /\ EncIdle /\ PackIdle /\ MapIdle

EscapeText ==
    /\ op = "escape"
    /\ op' = "escaped"
    /\ esc_output' = escape_text(esc_input)
    /\ UNCHANGED <<esc_input, errVars, encVars, packVars, mapVars>>

NextEscape == EscapeText

SpecEscape == InitEscape /\ [][NextEscape]_vars

\* the mapping the claim states, character by character
HexTable == <<48, 49, 50, 51, 52, 53, 54, 55, 56, 57, 97, 98, 99, 100, 101, 102>>

ClaimedEscapeOf(c) ==
    IF c = 8 THEN <<92, 98>>
    ELSE IF c = 12 THEN <<92, 102>>
    ELSE IF c = 10 THEN <<92, 110>>
    ELSE IF c = 13 THEN <<92, 114>>
    ELSE IF c = 9 THEN <<92, 116>>
    ELSE IF c = 92 THEN <<92, 92>>
    ELSE IF c = 34 THEN <<92, 34>>
    ELSE IF IsControl(c)
         THEN <<92, 117, 123,
                HexTable[((c \div 4096) % 16) + 1], HexTable[((c \div 256) % 16) + 1],
                HexTable[((c \div 16) % 16) + 1], HexTable[(c % 16) + 1], 125>>
    ELSE <<c>>

\* C2: escape_text maps every character independently: the named escapes for
\* backspace, form feed, newline, carriage return and tab, \\ and \" for backslash
\* and double quote, \u{XXXX} (with braces) for every other control character,
\* and every other character to itself.
C2_EscapeAsClaimed ==
    op = "escaped" =>
        esc_output = Concat([i \in 1..Len(esc_input) |-> ClaimedEscapeOf(esc_input[i])])

----------------------------------------------------------------------------
(* Specification of Error: an Error is built by one of the constructors or *)
(* as a struct literal (its fields are pub), then displayed.               *)

Messages == {<<>>, <<109>>}                                       \* "", "m"
Contexts == {<<>>, <<99, 10>>}                                    \* "", "c\n"
Positions == 0..MaxPos

OptionOf(S, none) == {none} \cup {Some(x) : x \in S}

InitError ==
    /\ op = "error"
    /\ ErrIdle /\ EscIdle /\ EncIdle /\ PackIdle /\ MapIdle

ErrorNew ==
    /\ op = "error"
    /\ \E m \in Messages : error' = Error_new(m)
    /\ op' = "error_new"
    /\ UNCHANGED <<escVars, shown, encVars, packVars, mapVars>>

ErrorWithPosition ==
    /\ op = "error"
    /\ \E m \in Messages, l \in Positions, c \in Positions :
          error' = Error_with_position(m, l, c)
    /\ op' = "error_with_position"
    /\ UNCHANGED <<escVars, shown, encVars, packVars, mapVars>>

ErrorWithContext ==
    /\ op = "error"
    /\ \E m \in Messages, x \in Contexts, l \in Positions, c \in Positions :
          error' = Error_with_context(m, x, l, c)
    /\ op' = "error_with_context"
    /\ UNCHANGED <<escVars, shown, encVars, packVars, mapVars>>

\* Error { message, context, line, column } written out by a caller
ErrorLiteral ==
    /\ op = "error"
    /\ \E m \in Messages, x \in OptionOf(Contexts, NoneStr),
          l \in OptionOf({1, MaxPos}, None), c \in OptionOf({1, MaxPos}, None) :
          error' = [message |-> m, context |-> x, line |-> l, column |-> c]
    /\ op' = "error_literal"
    /\ UNCHANGED <<escVars, shown, encVars, packVars, mapVars>>

ErrorBuilt == op \in {"error_new", "error_with_position", "error_with_context", "error_literal"}

\* format!("{}", error)
ErrorDisplay ==
    /\ ErrorBuilt
    /\ shown' = Error_fmt(error)
    /\ op' = "error_shown"
    /\ UNCHANGED <<escVars, error, encVars, packVars, mapVars>>

NextError == ErrorNew \/ ErrorWithPosition \/ ErrorWithContext \/ ErrorLiteral \/ ErrorDisplay

SpecError == InitError /\ [][NextError]_vars

\* text that starts with p
StartsWith(s, p) == Len(s) >= Len(p) /\ SubSeq(s, 1, Len(p)) = p

\* text that ends with p
EndsWith(s, p) == Len(s) >= Len(p) /\ SubSeq(s, Len(s) - Len(p) + 1, Len(s)) = p

HasPosition(e) == e.line.some /\ e.column.some

\* "Parse error at line {line}, column {column}: {message}"
PositionText(e) ==
    Concat(<< <<80, 97, 114, 115, 101, 32, 101, 114, 114, 111, 114, 32, 97, 116, 32,
                108, 105, 110, 101, 32>>,
              Decimal(e.line.v), <<44, 32, 99, 111, 108, 117, 109, 110, 32>>,
              Decimal(e.column.v), <<58, 32>>, e.message >>)

\* C8: an Error with a position displays as "Parse error at line L, column C: M",
\* followed by a line break and "Context: X" exactly when a context is present; an
\* Error without a position displays as "Error: M" and never shows its context;
\* and an Error built by new, with_position or with_context has its line present
\* exactly when its column is present.
C8_ErrorDisplay ==
    /\ op = "error_shown" /\ HasPosition(error) /\ error.context.some =>
          shown = PositionText(error)
                    \o <<10, 67, 111, 110, 116, 101, 120, 116, 58, 32>> \o error.context.v
    /\ op = "error_shown" /\ HasPosition(error) /\ ~error.context.some =>
          shown = PositionText(error)
    /\ op = "error_shown" /\ ~HasPosition(error) =>
          shown = <<69, 114, 114, 111, 114, 58, 32>> \o error.message
    /\ op \in {"error_new", "error_with_position", "error_with_context"} =>
          (error.line.some <=> error.column.some)

\* a displayed Error with a two-digit line, a column and a non-empty context
C8_Witness ==
    /\ op = "error_shown"
    /\ HasPosition(error) /\ error.line.v >= 10
    /\ error.context.some /\ error.context.v # <<>>

----------------------------------------------------------------------------
(* Specification of the encoders: a value is serialized (the Serialize     *)
(* implementation is the caller's: it returns a Value or an Error), handed  *)
(* to to_string, to_mini or to_pretty, configured and encoded.             *)

SeqsUpTo(S, n) == UNION {[1..k -> S] : k \in 0..n}

RECURSIVE MapFrom(_, _)
\* the BTreeMap holding f, built by inserting its pairs one by one
MapFrom(K, f) ==
    IF K = {} THEN EmptyMap
    ELSE LET k == CHOOSE x \in K : TRUE
         IN  BTreeInsert(MapFrom(K \ {k}, f), k, f[k])

MapsOver(keys, S, n) ==
    UNION {{MapFrom(K, f) : f \in [K -> S]} : K \in {X \in SUBSET keys : Cardinality(X) <= n}}

IsComposite(v) == v.tag \in {"Array", "Tuple", "Object", "Struct"}

\* at most c of the children xs are composites
AtMostComposite(xs, c) == Cardinality({i \in DOMAIN xs : IsComposite(xs[i])}) <= c

ObjectKeys == {<<107>>, <<34>>}                                   \* "k", "\""
FieldNames == {<<120>>, <<97, 32, 10, 98>>}                       \* "x", "a \nb"
StructName == <<80>>                                              \* "P"

\* every composite with at most n children drawn from S, at most c of them composites
Composites(S, n, c) ==
    {VArray(xs) : xs \in {ys \in SeqsUpTo(S, n) : AtMostComposite(ys, c)}}
      \cup {VTuple(xs) : xs \in {ys \in SeqsUpTo(S, n) : AtMostComposite(ys, c)}}
      \cup {VObject(m) : m \in {x \in MapsOver(ObjectKeys, S, n) : AtMostComposite(x.vals, c)}}
      \cup {VStruct(StructName, m) :
               m \in {x \in MapsOver(FieldNames, S, n) : AtMostComposite(x.vals, c)}}

\* null, true, false, -12, "e-acute space newline"
Atoms == {VNull, VBoolean(TRUE), VBoolean(FALSE), VNumber(0 - 12), VText(<<233, 32, 10>>)}

\* the composites that appear as children: at most MaxInner children, each null
Inner == Composites({VNull}, MaxInner, 0)

\* atoms, composites of atoms, and composites holding null and at most one composite
Values == Atoms \cup Composites(Atoms, MaxKids, 0) \cup Composites(Inner \cup {VNull}, MaxKids, 1)

SerializeErrors == {Error_new(<<109>>)}

Widths == (0..MaxWidth) \cup {DefaultMaxLineLength}
IndentSizes == (0..MaxIndent) \cup {DefaultIndentSize}

Init ==
    /\ op = "start"
    /\ serialized \in {Ok(v) : v \in Values} \cup {Err(e) : e \in SerializeErrors}
    /\ encoder = NoEncoder
    /\ result = NoResult
    /\ EscIdle /\ ErrIdle /\ PackIdle /\ MapIdle

\* a to_string that answers a failed serialize() with an empty text
to_string_SwallowsError(ser) ==
    IF ser.ok THEN pretty_encode(pretty_Encoder_new(ser.value)) ELSE Ok(<<>>)

\* to_string(value): serialize()?, then the default pretty encoder
to_string(ser) == IF ser.ok THEN pretty_encode(pretty_Encoder_new(ser.value)) ELSE Err(ser.err)

ToString ==
    /\ op = "start"
    /\ result' = to_string(serialized)
    /\ encoder' = IF serialized.ok THEN pretty_Encoder_new(serialized.value) ELSE NoEncoder
    /\ op' = "to_string_done"
    /\ UNCHANGED <<escVars, errVars, serialized, packVars, mapVars>>

\* to_mini(value): serialize()?, then Ok(mini::Encoder::new(serialized))
ToMini ==
    /\ op = "start"
    /\ IF serialized.ok
       THEN encoder' = mini_Encoder_new(serialized.value) /\ op' = "mini" /\ UNCHANGED result
       ELSE result' = Err(serialized.err) /\ op' = "to_mini_failed" /\ UNCHANGED encoder
    /\ UNCHANGED <<escVars, errVars, serialized, packVars, mapVars>>

\* to_pretty(value): serialize()?, then Ok(pretty::Encoder::new(serialized))
ToPretty ==
    /\ op = "start"
    /\ IF serialized.ok
       THEN encoder' = pretty_Encoder_new(serialized.value) /\ op' = "pretty" /\ UNCHANGED result
       ELSE result' = Err(serialized.err) /\ op' = "to_pretty_failed" /\ UNCHANGED encoder
    /\ UNCHANGED <<escVars, errVars, serialized, packVars, mapVars>>

\* the builder methods of pretty::Encoder
SetIndentSize ==
    /\ op = "pretty"
    /\ \E size \in IndentSizes : encoder' = [encoder EXCEPT !.indent_size = size]
    /\ UNCHANGED <<op, escVars, errVars, serialized, result, packVars, mapVars>>

SetMaxLineLength ==
    /\ op = "pretty"
    /\ \E length \in Widths : encoder' = [encoder EXCEPT !.max_line_length = length]
    /\ UNCHANGED <<op, escVars, errVars, serialized, result, packVars, mapVars>>

SetTrailingComma ==
    /\ op = "pretty"
    /\ \E enabled \in BOOLEAN : encoder' = [encoder EXCEPT !.trailing_comma = enabled]
    /\ UNCHANGED <<op, escVars, errVars, serialized, result, packVars, mapVars>>

MiniEncode ==
    /\ op = "mini"
    /\ result' = mini_encode(encoder)
    /\ op' = "mini_done"
    /\ UNCHANGED <<escVars, errVars, serialized, encoder, packVars, mapVars>>

PrettyEncode ==
    /\ op = "pretty"
    /\ result' = pretty_encode(encoder)
    /\ op' = "pretty_done"
    /\ UNCHANGED <<escVars, errVars, serialized, encoder, packVars, mapVars>>

Next ==
    \/ ToString
    \/ ToMini
    \/ ToPretty
    \/ SetIndentSize
    \/ SetMaxLineLength
    \/ SetTrailingComma
    \/ MiniEncode
    \/ PrettyEncode

Spec == Init /\ [][Next]_vars

----------------------------------------------------------------------------
(* Reading an encoded text *)

Closers == {93, 41, 125}                                          \* ] ) }

\* where a reader of the text stands: outside a double-quoted literal, inside
\* one, or inside one just after a backslash
ScanStates == {"out", "in", "esc"}

ScanStep(q, c) ==
    IF q = "out" THEN (IF c = 34 THEN "in" ELSE "out")
    ELSE IF q = "esc" THEN "in"
    ELSE IF c = 92 THEN "esc"
    ELSE IF c = 34 THEN "out"
    ELSE "in"

RECURSIVE NextSolid(_, _)
\* the first character of s from position i on that is not whitespace (0 if none)
NextSolid(s, i) ==
    IF i > Len(s) THEN 0
    ELSE IF IsWhitespace(s[i]) THEN NextSolid(s, i + 1)
    ELSE s[i]

\* layout: whitespace, and a comma that directly precedes a closing delimiter
IsLayout(s, i) == IsWhitespace(s[i]) \/ (s[i] = 44 /\ NextSolid(s, i + 1) \in Closers)

\* the entry of a scan result for the start state q
From(R, q) == IF q = "out" THEN R.out ELSE IF q = "in" THEN R.in ELSE R.esc

\* reading one character from state q
ScanOne(s, i, q) ==
    [q |-> ScanStep(q, s[i]),
     text |-> IF q = "out" /\ IsLayout(s, i) THEN <<>> ELSE <<s[i]>>,
     bare |-> q = "out" /\ IsWhitespace(s[i])]

\* reading two stretches one after the other, from state q
ScanBoth(A, B, q) ==
    [q |-> From(B, From(A, q).q).q,
     text |-> From(A, q).text \o From(B, From(A, q).q).text,
     bare |-> From(A, q).bare \/ From(B, From(A, q).q).bare]

RECURSIVE Scan(_, _, _)
\* what reading s[lo..hi] does, for each state the reader may start in: the state
\* it ends in, the text without the layout outside literals, and whether a
\* whitespace character was met outside a literal
Scan(s, lo, hi) ==
    IF lo = hi
    THEN [out |-> ScanOne(s, lo, "out"), in |-> ScanOne(s, lo, "in"),
          esc |-> ScanOne(s, lo, "esc")]
    ELSE LET mid == (lo + hi) \div 2
             A == Scan(s, lo, mid)
             B == Scan(s, mid + 1, hi)
         IN  [out |-> ScanBoth(A, B, "out"), in |-> ScanBoth(A, B, "in"),
              esc |-> ScanBoth(A, B, "esc")]

\* no whitespace character of s lies outside a double-quoted literal
NoBareWhitespace(s) == s = <<>> \/ ~Scan(s, 1, Len(s)).out.bare

\* s without its layout
Canon(s) == IF s = <<>> THEN <<>> ELSE Scan(s, 1, Len(s)).out.text

Contains(s, c) == \E i \in 1..Len(s) : s[i] = c

----------------------------------------------------------------------------
(* Claims about the compact encoder *)

\* C4: the compact encoder's text holds no raw line break and no whitespace
\* outside a double-quoted literal, for every Value.
C4_CompactSingleLineNoWhitespace ==
    op = "mini_done" =>
        /\ ~Contains(result.value, 10)
        /\ ~Contains(result.value, 13)
        /\ NoBareWhitespace(result.value)

RECURSIVE RefCompact(_)
\* the reference rendering: the children from the i-th on, a comma before each
\* but the first
RefCompact(v) ==
    LET RECURSIVE Rest(_)
        Rest(i) ==
            IF i > Len(v.items) THEN <<>>
            ELSE (IF i > 1 THEN <<44>> ELSE <<>>)
                 \o (IF v.tag = "Object"
                     THEN <<34>> \o escape_text(v.keys[i]) \o <<34, 58>>
                     ELSE IF v.tag = "Struct" THEN v.keys[i] \o <<61>>
                     ELSE <<>>)
                 \o RefCompact(v.items[i])
                 \o Rest(i + 1)
    IN  IF v.tag = "Null" THEN <<110, 117, 108, 108>>
        ELSE IF v.tag = "Boolean"
             THEN (IF v.b THEN <<116, 114, 117, 101>> ELSE <<102, 97, 108, 115, 101>>)
        ELSE IF v.tag = "Number" THEN NumberToString(v.n)
        ELSE IF v.tag = "Text" THEN <<34>> \o escape_text(v.text) \o <<34>>
        ELSE IF v.tag = "Array" THEN <<91>> \o Rest(1) \o <<93>>
        ELSE IF v.tag = "Tuple" THEN <<40>> \o Rest(1) \o <<41>>
        ELSE IF v.tag = "Object" THEN <<123>> \o Rest(1) \o <<125>>
        ELSE <<64, 40>> \o Rest(1) \o <<41>>

\* C5: the compact encoder returns the reference rendering: null, true/false, the
\* decimal number, the quoted escaped text, [..], (..), {"k":v,..}, @(f=v,..) with
\* the children in stored order joined by bare commas, no trailing comma, the
\* empty delimiter pair for an empty composite, and no struct type name.
C5_CompactIsReference ==
    op = "mini_done" =>
        /\ result = Ok(RefCompact(serialized.value))
        /\ ~Contains(result.value, StructName[1])

\* a Struct holding a composite was encoded by the compact encoder
C5_Witness ==
    /\ op = "mini_done"
    /\ serialized.value.tag = "Struct"
    /\ \E i \in 1..Len(serialized.value.items) : serialized.value.items[i].tag = "Object"
    /\ result.ok

\* the text carries the whole value: it is the reference compact rendering once
\* the layout is taken away
Complete(text, value) ==
    /\ text # <<>>
    /\ Canon(text) = Canon(RefCompact(value))

\* C7: to_string, to_mini(..).encode() and to_pretty(..).encode() return an error
\* exactly when serialize() does, then that same error and no text; for a Value
\* that was serialized both encoders return a complete text, whatever the
\* configuration.
C7_FailsOnlyWhenSerializeFails ==
    /\ op \in {"to_string_done", "to_mini_failed", "to_pretty_failed"} /\ ~serialized.ok =>
          result = Err(serialized.err)
    /\ op \in {"to_mini_failed", "to_pretty_failed"} => ~serialized.ok
    /\ op \in {"mini", "pretty", "mini_done", "pretty_done"} => serialized.ok
    /\ op \in {"to_string_done", "mini_done", "pretty_done"} /\ serialized.ok =>
          /\ result.ok
          /\ result.err = NoError
          /\ Complete(result.value, serialized.value)

\* to_string was called on a value whose serialize() failed
C7_Witness ==
    /\ op = "to_string_done"
    /\ ~serialized.ok
    /\ ~result.ok /\ result.err = serialized.err /\ result.value = <<>>

----------------------------------------------------------------------------
(* Claims about the pretty encoder *)

RECURSIVE Lines(_)
\* the lines of a text: the stretches between line breaks
Lines(s) ==
    IF ~Contains(s, 10) THEN <<s>>
    ELSE LET p == CHOOSE i \in 1..Len(s) : s[i] = 10 /\ \A j \in 1..(i - 1) : s[j] # 10
         IN  <<SubSeq(s, 1, p - 1)>> \o Lines(SubSeq(s, p + 1, Len(s)))

\* no line of the text is longer than L characters
LinesWithin(text, L) == \A i \in DOMAIN Lines(text) : CharCount(Lines(text)[i]) <= L

\* the number of line breaks of a text
LineBreaks(text) == Cardinality({i \in DOMAIN text : text[i] = 10})

IsSequenceLike(v) == v.tag \in {"Array", "Tuple", "Object"}

OpenOf(v) == IF v.tag = "Array" THEN <<91>> ELSE IF v.tag = "Tuple" THEN <<40>> ELSE <<123>>
CloseOf(v) == IF v.tag = "Array" THEN <<93>> ELSE IF v.tag = "Tuple" THEN <<41>> ELSE <<125>>

\* the rendered children of the composite v encoded at depth d: for an Object the
\* entries "key": value, for a Struct the fields name = value
Rendered(self, v, d) ==
    [i \in 1..Len(v.items) |->
        IF v.tag = "Object"
        THEN <<34>> \o escape_text(v.keys[i]) \o <<34, 58, 32>>
             \o pretty_encode_value(self, v.items[i], d + 1)
        ELSE IF v.tag = "Struct"
        THEN v.keys[i] \o <<32, 61, 32>> \o pretty_encode_value(self, v.items[i], d + 1)
        ELSE pretty_encode_value(self, v.items[i], d + 1)]

\* the composites the claims are checked on: the input at depth 0 and its children
\* at depth 1
Encoded == {[v |-> encoder.input, d |-> 0]}
             \cup {[v |-> encoder.input.items[i], d |-> 1] : i \in 1..Len(encoder.input.items)}

\* C1 as stated: with no rendered child longer than L characters, no line of a
\* pretty-encoded Array, Tuple or Object is longer than L characters (here for the
\* composites that have a child).
C1_WidthBoundByChildLength ==
    op = "pretty_done" /\ IsSequenceLike(encoder.input) /\ encoder.input.items # <<>> =>
        LET kids == Rendered(encoder, encoder.input, 0)
        IN  (\A i \in DOMAIN kids : CharCount(kids[i]) <= encoder.max_line_length)
               => LinesWithin(result.value, encoder.max_line_length)

\* the child, on a line of its own at the children's indentation and followed by
\* a comma, is no longer than max_line_length
FitsAlone(self, child, d) ==
    self.indent_size * (d + 1) + CharCount(child) + 1 <= self.max_line_length

\* C1 (amended): when every rendered child of a non-empty Array, Tuple or Object encoded at
\* depth d fits on a line of its own with its indentation and a comma
\* (indent_size * (d + 1) + length + 1 <= max_line_length), no line of the
\* composite's text is longer than max_line_length characters.
C1_WidthBound ==
    op = "pretty_done" =>
        \A e \in Encoded :
            IsSequenceLike(e.v) /\ e.v.items # <<>>
              /\ (\A i \in 1..Len(e.v.items) : FitsAlone(encoder, Rendered(encoder, e.v, e.d)[i], e.d))
            => LinesWithin(pretty_encode_value(encoder, e.v, e.d), encoder.max_line_length)
               /\ (e.d = 0 => LinesWithin(result.value, encoder.max_line_length))

\* a multi-line Array, Tuple or Object whose children all fit alone and one of
\* whose lines is exactly max_line_length long
C1_Witness ==
    /\ op = "pretty_done"
    /\ IsSequenceLike(encoder.input)
    /\ Len(encoder.input.items) > 1
    /\ \A i \in 1..Len(encoder.input.items) :
          FitsAlone(encoder, Rendered(encoder, encoder.input, 0)[i], 0)
    /\ Contains(result.value, 10)
    /\ \E i \in DOMAIN Lines(result.value) :
          CharCount(Lines(result.value)[i]) = encoder.max_line_length

\* the text of a non-empty Struct with every field on its own line, seps[i] being
\* what follows the i-th field (nothing or a comma)
StructForm(self, v, d, seps) ==
    <<64, 40, 10>>
      \o Concat([i \in 1..Len(v.items) |->
                   indent(self, d + 1) \o v.keys[i] \o <<32, 61, 32>>
                     \o pretty_encode_value(self, v.items[i], d + 1) \o seps[i] \o <<10>>])
      \o indent(self, d) \o <<41>>

\* C6: a non-empty Struct never collapses to one line: its text is "@(", a line
\* break, each field as "name = value" on its own line at indent(depth + 1), then
\* indent(depth) and ")", whatever max_line_length, indent_size, trailing_comma.
C6_StructNeverCollapses ==
    op = "pretty_done" =>
        \A e \in Encoded :
            e.v.tag = "Struct" /\ e.v.items # <<>> =>
                /\ \E seps \in [1..Len(e.v.items) -> {<<>>, <<44>>}] :
                      pretty_encode_value(encoder, e.v, e.d) = StructForm(encoder, e.v, e.d, seps)
                /\ LineBreaks(pretty_encode_value(encoder, e.v, e.d)) >= Len(e.v.items) + 1
                /\ (e.d = 0 =>
                      \E seps \in [1..Len(e.v.items) -> {<<>>, <<44>>}] :
                          result.value = StructForm(encoder, e.v, 0, seps))

\* a Struct of two fields encoded at depth 1 with the default max_line_length,
\* under which its fields would fit on one line
C6_Witness ==
    /\ op = "pretty_done"
    /\ encoder.max_line_length = DefaultMaxLineLength
    /\ \E i \in 1..Len(encoder.input.items) :
          /\ encoder.input.items[i].tag = "Struct"
          /\ Len(encoder.input.items[i].items) >= 1
    /\ encoder.input.tag = "Struct"
    /\ Len(encoder.input.items) = 2
    /\ LineBreaks(result.value) >= 3

\* the length the single-line rule compares with max_line_length
RuleLength(self, kids, d) ==
    self.indent_size * d + 1 + SumLen(kids) + 2 * (Len(kids) - 1) + 1
      + (IF d > 0 THEN 1 ELSE 0)

\* the single-line form: the delimiters around the children joined by ", "
SingleLineForm(v, kids) == OpenOf(v) \o Join(kids, <<44, 32>>) \o CloseOf(v)

----------------------------------------------------------------------------
(* The separators of the multi-line form and the line ends of the pretty text *)

\* the delimiters of any composite
OpenText(v) == IF v.tag = "Struct" THEN <<64, 40>> ELSE OpenOf(v)
CloseText(v) == IF v.tag = "Struct" THEN <<41>> ELSE CloseOf(v)

\* the composite was emitted in multi-line form: the opening delimiter ends a line
IsMultiLineForm(v, text) == v.items # <<>> /\ StartsWith(text, OpenText(v) \o <<10>>)

RECURSIVE SkipLayout(_, _)
\* the first position from p on that holds neither a space nor a line break
SkipLayout(text, p) ==
    IF p <= Len(text) /\ text[p] \in {32, 10} THEN SkipLayout(text, p + 1) ELSE p

RECURSIVE FollowedAsPolicy(_, _, _, _, _)
\* from position p on, the text holds the children kids[i], kids[i + 1], .. in
\* order with only spaces and line breaks between them, every child but the last
\* immediately followed by a comma, the last one immediately followed by a comma
\* exactly when trailing says so, and then nothing but the closing text
FollowedAsPolicy(text, p, kids, i, rest) ==
    LET q == SkipLayout(text, p)
        n == Len(kids)
    IN  IF i > n THEN SubSeq(text, q, Len(text)) = rest.close
        ELSE LET e == q + Len(kids[i])
             IN  /\ SubSeq(text, q, e - 1) = kids[i]
                 /\ IF i < n \/ rest.trailing
                    THEN e <= Len(text) /\ text[e] = 44
                           /\ FollowedAsPolicy(text, e + 1, kids, i + 1, rest)
                    ELSE (e <= Len(text) => text[e] # 44)
                           /\ FollowedAsPolicy(text, e, kids, i + 1, rest)

\* the comma policy on the multi-line form of one composite
CommaPolicy(self, v, d) ==
    LET text == pretty_encode_value(self, v, d)
    IN  IsMultiLineForm(v, text) =>
            FollowedAsPolicy(text, Len(OpenText(v)) + 2, Rendered(self, v, d), 1,
                             [close |-> CloseText(v), trailing |-> self.trailing_comma])

\* the comma policy on every multi-line composite of the encoded text, and the
\* configuration of a new pretty encoder
TrailingCommaPolicy ==
    /\ op = "pretty_done" => \A e \in Encoded : CommaPolicy(encoder, e.v, e.d)
    /\ op = "to_string_done" /\ serialized.ok =>
          /\ encoder.trailing_comma = TRUE
          /\ encoder.indent_size = 2
          /\ encoder.max_line_length = 100

\* no line of the text ends with a space
NoLineEndsWithSpace(text) ==
    \A i \in DOMAIN Lines(text) :
        Lines(text)[i] = <<>> \/ Lines(text)[i][Len(Lines(text)[i])] # 32

\* C11 as stated: in the multi-line form of an Array, Tuple, Object or Struct
\* every child except the last is immediately followed by a comma and the last
\* one exactly when trailing_comma is true, which is the default of a new pretty
\* encoder together with indent_size 2 and max_line_length 100; and no emitted
\* line ends with a space.
C11_TrailingCommaPolicy ==
    /\ TrailingCommaPolicy
    /\ op \in {"pretty_done", "to_string_done"} /\ result.ok => NoLineEndsWithSpace(result.value)

----------------------------------------------------------------------------
(* Specification of the packing loop, step by step: encode_array,          *)
(* encode_tuple and encode_object (encode.rs:188-457) run on one composite  *)
(* at depth pack_depth, one action per loop iteration.                      *)

\* the children handed to the loop: a number, a text with a two-byte character,
\* a Struct (rendered on several lines)
PackKids == {VNumber(0 - 12), VText(<<233>>),
             VStruct(StructName, BTreeInsert(EmptyMap, <<120>>, VNull))}

\* the key of the i-th entry of an Object: "k1", "k2", ...
PackKey(i) == <<107, 48 + i>>

PackValue(tag, xs) ==
    IF tag = "Array" THEN VArray(xs)
    ELSE IF tag = "Tuple" THEN VTuple(xs)
    ELSE VObject([keys |-> [i \in 1..Len(xs) |-> PackKey(i)], vals |-> xs])

InitPack ==
    /\ op = "pack_start"
    /\ \E tag \in {"Array", "Tuple", "Object"}, xs \in SeqsUpTo(PackKids, MaxPack) :
          serialized = Ok(PackValue(tag, xs))
    /\ \E size \in {0, DefaultIndentSize}, length \in 0..MaxPackWidth, enabled \in BOOLEAN :
          encoder = [pretty_Encoder_new(serialized.value) EXCEPT
                        !.indent_size = size, !.max_line_length = length,
                        !.trailing_comma = enabled]
    /\ pack_depth \in {0, 1}
    /\ result = NoResult
    /\ items = <<>> /\ idx = 0 /\ current_line = <<>> /\ output = <<>>
    /\ EscIdle /\ ErrIdle /\ MapIdle

PackOpen == IF encoder.input.tag = "Array" THEN <<91>>
            ELSE IF encoder.input.tag = "Tuple" THEN <<40>> ELSE <<123>>
PackClose == IF encoder.input.tag = "Array" THEN <<93>>
             ELSE IF encoder.input.tag = "Tuple" THEN <<41>> ELSE <<125>>

\* value.is_empty(): return the empty delimiter pair
IsEmptyGuard == op = "pack_start" /\ encoder.input.items = <<>>

PackReturnEmpty ==
    /\ IsEmptyGuard
    /\ result' = Ok(PackOpen \o PackClose)
    /\ op' = "pack_returned_empty"
    /\ UNCHANGED <<escVars, errVars, serialized, encoder, packVars, mapVars>>

\* the first loop: every child encoded at depth + 1 and pushed to items
NotEmptyGuard == op = "pack_start" /\ encoder.input.items # <<>>

PackEncodeChildren ==
    /\ NotEmptyGuard
    /\ items' = [i \in 1..Len(encoder.input.items) |->
                    IF encoder.input.tag = "Object"
                    THEN pretty_object_entry(encoder.input.keys[i],
                             pretty_encode_value(encoder, encoder.input.items[i], pack_depth + 1))
                    ELSE pretty_encode_value(encoder, encoder.input.items[i], pack_depth + 1)]
    /\ op' = "pack_encoded"
    /\ UNCHANGED <<escVars, errVars, encVars, idx, current_line, output, pack_depth, mapVars>>

\* can_fit_single_line: return the single-line form
SingleLineGuard == op = "pack_encoded" /\ CanFitSingleLine(encoder, items, pack_depth)

PackReturnSingleLine ==
    /\ SingleLineGuard
    /\ result' = Ok(SingleLine(PackOpen, items, PackClose))
    /\ op' = "pack_returned_single"
    /\ UNCHANGED <<escVars, errVars, serialized, encoder, packVars, mapVars>>

\* output = open + "\n", current_line = next_indent
MultiLineGuard == op = "pack_encoded" /\ ~CanFitSingleLine(encoder, items, pack_depth)

PackBegin ==
    /\ MultiLineGuard
    /\ output' = PackOpen \o <<10>>
    /\ current_line' = indent(encoder, pack_depth + 1)
    /\ idx' = 0
    /\ op' = "packing"
    /\ UNCHANGED <<escVars, errVars, encVars, items, pack_depth, mapVars>>

\* one iteration of the packing loop, on the child of 0-based index idx
LoopGuard == op = "packing" /\ idx < Len(items)

PackIter ==
    /\ LoopGuard
    /\ LET st == PackStep(encoder, [output |-> output, current_line |-> current_line],
                          items[idx + 1], idx, Len(items), indent(encoder, pack_depth + 1))
       IN  output' = st.output /\ current_line' = st.current_line
    /\ idx' = idx + 1
    /\ UNCHANGED <<op, escVars, errVars, encVars, items, pack_depth, mapVars>>

\* after the loop: the last line, the closing indent and delimiter, Ok(output)
LoopExitGuard == op = "packing" /\ idx = Len(items)

PackEnd ==
    /\ LoopExitGuard
    /\ result' = Ok(PackFinish([output |-> output, current_line |-> current_line],
                               indent(encoder, pack_depth),
                               StrLen(indent(encoder, pack_depth + 1)), PackClose))
    /\ op' = "pack_returned_multi"
    /\ UNCHANGED <<escVars, errVars, serialized, encoder, packVars, mapVars>>

NextPack ==
    \/ PackReturnEmpty
    \/ PackEncodeChildren
    \/ PackReturnSingleLine
    \/ PackBegin
    \/ PackIter
    \/ PackEnd

SpecPack == InitPack /\ [][NextPack]_vars

PackReturned == op \in {"pack_returned_empty", "pack_returned_single", "pack_returned_multi"}

\* the text without the characters the layout is made of: spaces, line breaks
\* and commas
IsInk(c) == c # 44 /\ ~IsWhitespace(c)
Ink(s) == SelectSeq(s, IsInk)

\* the text t occurs in s
Occurs(t, s) == \E p \in 1..(Len(s) - Len(t) + 1) : SubSeq(s, p, p + Len(t) - 1) = t

\* the separator that follows the k-th child (1-based) once its line is trimmed
SeparatorOf(k) == IF k < Len(items) \/ encoder.trailing_comma THEN <<44>> ELSE <<>>

\* the k-th child with its indentation and separator is longer than
\* max_line_length: it fits on no line
TooLong(k) ==
    StrLen(indent(encoder, pack_depth + 1)) + StrLen(items[k]) + Len(SeparatorOf(k))
      > encoder.max_line_length

\* the k-th child stands between two line breaks with nothing but its
\* indentation before it and its separator after it
AloneOnItsLines(k, text) ==
    Occurs(<<10>> \o indent(encoder, pack_depth + 1) \o items[k] \o SeparatorOf(k) \o <<10>>,
           text)

\* the condition of one of the steps holds (what follows the condition in every
\* step is a plain assignment)
PackCanStep ==
    \/ IsEmptyGuard \/ NotEmptyGuard
    \/ SingleLineGuard \/ MultiLineGuard
    \/ LoopGuard \/ LoopExitGuard

\* how far the function has come: before the first loop, before the fit test,
\* inside the packing loop, returned
PackRank(o) == CASE o = "pack_start" -> 0
                 [] o = "pack_encoded" -> 1
                 [] o = "packing" -> 2
                 [] OTHER -> 3

\* what holds in every state of the function
PackInvariant ==
    /\ ~PackReturned => PackCanStep
    /\ op = "packing" =>
          /\ idx \in 0..Len(items)
          /\ Ink(output \o current_line)
               = Ink(PackOpen \o Concat(SubSeq(items, 1, idx)))
    /\ op = "pack_returned_multi" =>
          /\ idx = Len(items)
          /\ Ink(result.value) = Ink(PackOpen \o Concat(items) \o PackClose)
          /\ \A k \in 1..Len(items) : TooLong(k) => AloneOnItsLines(k, result.value)
    /\ PackReturned =>
          result = Ok(pretty_encode_value(encoder, encoder.input, pack_depth))

\* every step either moves the function forward or is an iteration of the
\* packing loop that consumes exactly one more child
PackProgress ==
    \/ PackRank(op') > PackRank(op)
    \/ op = "packing" /\ op' = "packing" /\ idx' = idx + 1 /\ idx' <= Len(items)

\* C10: the packing loop finishes (until the function has returned a step is
\* always possible, and every step moves forward or consumes one more of the
\* finitely many children); every child appears in the output exactly once and
\* in its original order; and a child too long to fit within max_line_length
\* even on an otherwise empty line is still emitted, on a line that holds no
\* other sibling.
C10_GreedyPacking ==
    /\ []PackInvariant
    /\ [][PackProgress]_vars

\* a multi-line text of three children, one of which fits on no line and one of
\* which does
C10_Witness ==
    /\ op = "pack_returned_multi"
    /\ Len(items) = 3
    /\ \E k \in 1..3 : TooLong(k)
    /\ \E k \in 1..3 : ~TooLong(k)
    /\ LineBreaks(result.value) > 3

----------------------------------------------------------------------------
(* Specification of map construction: the pairs of an Object or of a       *)
(* Struct are inserted into the BTreeMap (core.rs:47-48) in any order, and  *)
(* the finished Value is encoded by the compact and by the pretty encoder.  *)

\* "b", "a", "ab", "e-acute", "B": the first MaxMapKeys of them are used
KeyPool == <<<<98>>, <<97>>, <<97, 98>>, <<233>>, <<66>>>>
MapKeys == {KeyPool[i] : i \in 1..MaxMapKeys}
MapVals == {VNull, VNumber(0 - 12)}

\* the sets of pairs with distinct keys, none inserted yet
PairSets ==
    UNION {{{[key |-> k, value |-> f[k], inserted |-> FALSE] : k \in K} : f \in [K -> MapVals]}
           : K \in SUBSET MapKeys}

InitMap ==
    /\ op = "map_build"
    /\ pairs \in PairSets
    /\ map = EmptyMap
    /\ EscIdle /\ ErrIdle /\ EncIdle /\ PackIdle

\* map.insert(key, value), for any pair
MapInsert ==
    /\ op = "map_build"
    /\ \E p \in pairs :
          /\ map' = BTreeInsert(map, p.key, p.value)
          /\ pairs' = (pairs \ {p}) \cup {[p EXCEPT !.inserted = TRUE]}
    /\ UNCHANGED <<op, escVars, errVars, encVars, packVars>>

AllInserted == \A p \in pairs : p.inserted

\* Value::Object(map) or Value::Struct(name, map)
MapValue(tag) == IF tag = "Object" THEN VObject(map) ELSE VStruct(StructName, map)

\* the finished map, as Object or as Struct, through the compact encoder
MapEncodeMini ==
    /\ op = "map_build"
    /\ AllInserted
    /\ \E tag \in {"Object", "Struct"} :
          /\ encoder' = mini_Encoder_new(MapValue(tag))
          /\ result' = mini_encode(mini_Encoder_new(MapValue(tag)))
    /\ op' = "map_mini_done"
    /\ UNCHANGED <<escVars, errVars, serialized, packVars, mapVars>>

\* the finished map, as Object or as Struct, through the pretty encoder
MapEncodePretty ==
    /\ op = "map_build"
    /\ AllInserted
    /\ \E tag \in {"Object", "Struct"}, size \in {0, DefaultIndentSize},
          length \in {0, MaxWidth, DefaultMaxLineLength}, enabled \in BOOLEAN :
          LET self == [pretty_Encoder_new(MapValue(tag)) EXCEPT
                          !.indent_size = size, !.max_line_length = length,
                          !.trailing_comma = enabled]
          IN  /\ encoder' = self
              /\ result' = pretty_encode(self)
    /\ op' = "map_pretty_done"
    /\ UNCHANGED <<escVars, errVars, serialized, packVars, mapVars>>

NextMap ==
    \/ MapInsert
    \/ MapEncodeMini
    \/ MapEncodePretty

SpecMap == InitMap /\ [][NextMap]_vars

\* the pairs inserted so far, without their flags
Inserted == {[key |-> p.key, value |-> p.value] : p \in {q \in pairs : q.inserted}}

\* the pair of P with the smallest key
MinPair(P) == CHOOSE p \in P : \A q \in P : q = p \/ StrLess(p.key, q.key)

RECURSIVE Ascending(_)
\* the pairs of P in ascending order of their keys: depends on the set alone
Ascending(P) == IF P = {} THEN <<>> ELSE <<MinPair(P)>> \o Ascending(P \ {MinPair(P)})

\* the compact text of an Object or a Struct whose entries are the sequence ps
CompactOfPairs(tag, ps) ==
    LET RECURSIVE Rest(_)
        Rest(i) ==
            IF i > Len(ps) THEN <<>>
            ELSE (IF i > 1 THEN <<44>> ELSE <<>>)
                 \o (IF tag = "Object" THEN <<34>> \o escape_text(ps[i].key) \o <<34, 58>>
                     ELSE ps[i].key \o <<61>>)
                 \o RefCompact(ps[i].value)
                 \o Rest(i + 1)
    IN  (IF tag = "Object" THEN <<123>> ELSE <<64, 40>>) \o Rest(1)
          \o (IF tag = "Object" THEN <<125>> ELSE <<41>>)

\* the Value holding the entries ps in that order
ValueOfPairs(tag, ps) ==
    LET m == [keys |-> [i \in 1..Len(ps) |-> ps[i].key],
              vals |-> [i \in 1..Len(ps) |-> ps[i].value]]
    IN  IF tag = "Object" THEN VObject(m) ELSE VStruct(StructName, m)

\* C3: whatever the order of insertion, the map holds the inserted pairs in
\* ascending order of their keys, so that the Value and its text depend on the set
\* of pairs alone: the compact text lists the entries in ascending key order, and
\* the pretty text, in every configuration, is the text of the Value whose entries
\* are in ascending key order and lists the same entries in the same order.  (The
\* encoders are functions of the Value and the configuration, so encoding the same
\* Value twice gives the same text.)
C3_OrderIndependent ==
    /\ op \in {"map_build", "map_mini_done", "map_pretty_done"} =>
          /\ \A i \in 1..(Len(map.keys) - 1) : StrLess(map.keys[i], map.keys[i + 1])
          /\ Len(map.vals) = Len(map.keys)
          /\ {[key |-> map.keys[i], value |-> map.vals[i]] : i \in 1..Len(map.keys)} = Inserted
    /\ op = "map_mini_done" =>
          /\ encoder.input = ValueOfPairs(encoder.input.tag, Ascending(Inserted))
          /\ result = Ok(CompactOfPairs(encoder.input.tag, Ascending(Inserted)))
    /\ op = "map_pretty_done" =>
          /\ encoder.input = ValueOfPairs(encoder.input.tag, Ascending(Inserted))
          /\ result = pretty_encode([encoder EXCEPT
                          !.input = ValueOfPairs(encoder.input.tag, Ascending(Inserted))])
          /\ Canon(result.value) = Canon(CompactOfPairs(encoder.input.tag, Ascending(Inserted)))

\* three pairs, one key a prefix of another, were inserted and the map was
\* encoded
C3_Witness ==
    /\ op \in {"map_mini_done", "map_pretty_done"}
    /\ Len(map.keys) = 3
    /\ result.ok /\ result.value # <<>>

----------------------------------------------------------------------------
(* Reading an escaped text back *)

\* the value of one lower-case hexadecimal digit, 16 for any other character
HexValue(c) ==
    IF c \in 48..57 THEN c - 48
    ELSE IF c \in 97..102 THEN c - 87
    ELSE 16

\* the text is backslash, u and four hexadecimal digits from position 1 on
IsUnicodeEscape(t) ==
    /\ Len(t) >= 6
    /\ t[1] = 92 /\ t[2] = 117
    /\ \A i \in 3..6 : HexValue(t[i]) < 16

\* what no text unescapes to
Malformed == <<0 - 1>>

RECURSIVE unescape(_)
\* a reader of the escaped form, from left to right: a backslash starts an escape
\* sequence, every other character stands for itself
unescape(t) ==
    IF t = <<>> THEN <<>>
    ELSE IF t[1] # 92 THEN <<t[1]>> \o unescape(Tail(t))
    ELSE IF Len(t) < 2 THEN Malformed
    ELSE IF t[2] = 117
         THEN IF IsUnicodeEscape(t)
              THEN <<HexValue(t[3]) * 4096 + HexValue(t[4]) * 256
                       + HexValue(t[5]) * 16 + HexValue(t[6])>>
                     \o unescape(SubSeq(t, 7, Len(t)))
              ELSE Malformed
    ELSE IF t[2] \in {98, 102, 110, 114, 116, 92, 34}
         THEN <<CASE t[2] = 98  -> 8
                  [] t[2] = 102 -> 12
                  [] t[2] = 110 -> 10
                  [] t[2] = 114 -> 13
                  [] t[2] = 116 -> 9
                  [] OTHER      -> t[2]>>
                \o unescape(SubSeq(t, 3, Len(t)))
    ELSE Malformed

RECURSIVE NothingRaw(_)
\* read from left to right, the text holds no control character and no double
\* quote except a double quote that an escaping backslash announces; the
\* character after an escaping backslash belongs to the escape
NothingRaw(t) ==
    IF t = <<>> THEN TRUE
    ELSE IF t[1] = 92
         THEN Len(t) >= 2 /\ ~IsControl(t[2]) /\ NothingRaw(SubSeq(t, 3, Len(t)))
    ELSE t[1] # 34 /\ ~IsControl(t[1]) /\ NothingRaw(Tail(t))

\* C12: escape_text is invertible: reading the escaped text back gives the input,
\* so no other input has the same escaped text (shown also against every input of
\* at most one character); and the escaped text holds no raw control character
\* and no double quote without its escaping backslash.
C12_EscapeInvertible ==
    op = "escaped" =>
        /\ unescape(esc_output) = esc_input
        /\ \A other \in StringsUpTo(EscChars, 1) :
              other # esc_input => escape_text(other) # esc_output
        /\ NothingRaw(esc_output)
        /\ \A i \in DOMAIN esc_output : ~IsControl(esc_output[i])
        /\ \A i \in DOMAIN esc_output :
              esc_output[i] = 34 => i > 1 /\ esc_output[i - 1] = 92

\* a backslash followed by a control character that has no short escape went
\* through escape_text
C12_Witness ==
    /\ op = "escaped"
    /\ Len(esc_input) = 2
    /\ esc_input[1] = 92
    /\ IsControl(esc_input[2]) /\ esc_input[2] \notin {8, 9, 10, 12, 13}
    /\ Len(esc_output) = 8

====
